---- MODULE Spec2Model ----
(***************************************************************************)
(* Model of src/api_dnit.py: the Telethon session threads (run_telethon,   *)
(* start_telegram and its supervisor loop), restart_telethon and           *)
(* check_connection, the synchronous lookup consult_dnit_sync and the      *)
(* coroutine consult_dnit_async it submits to the session's event loop.    *)
(*                                                                         *)
(* Time is a clock in seconds that advances in steps of TickSeconds, while *)
(* a lookup waits for it; the                                              *)
(* sleeps of the session threads (2, 3, 5 and 10 seconds) and the bounded  *)
(* wait of restart_telethon are not tied to the clock: they end at some    *)
(* later step.  Messages the account itself sends (the "/dnit" commands)   *)
(* are kept in cmds and not in msgs.                                       *)
(***************************************************************************)
EXTENDS Integers, Sequences, FiniteSets, TLC

\* ---- bounds of the model
MaxGen == 2
MaxMsgs == 1
MaxQueryMsgs == 4
MaxPairMsgs == 2
MaxTime == 40
TickSeconds == 10
MaxImageMsgs == 3
MaxAnchorMsgs == 2
MaxLines == 2
MaxRegIds == 3
MaxRegTime == 120
RegTickSeconds == 30

\* ---- constants of the program
Timeout == 30
OuterTimeout == 35
max_capture_time == 6
MaxImages == 4
PollLimit == 10
CaptureLimit == 50
MinLogoLen == 3000
Staleness == 60
PollSleep == 1

Lookups == {1, 2}
Ops == 0
Callers == Lookups \cup {Ops}
Gens == 1..MaxGen
DNIs == {"11111111", "22222222"}
Photos == {"face", "logo", "tall", "wide", "banner", "broken"}
TARGET_BOT_ID == "bot"
RegIds == 1..MaxRegIds

VARIABLES
  is_ready, client, loop,        \* the module's globals (0 is None)
  nthreads, tpc, starget,        \* run_telethon threads: count, position, client in use
  connected, started,            \* per client object: is_connected(), start() completed
  pc,                            \* position of each caller thread
  lk, co, gh,                    \* per lookup: sync locals, coroutine locals, counters
  msgs, cmds,                    \* the chat with the responder, the commands sent
  now,
  pending_requests,              \* the registry: entries (request_id, created_at)
  futures                        \* the future registered under each request id

sessionVars == <<is_ready, client, loop, nthreads, tpc, starget, connected, started>>
lookupVars == <<lk, co, gh>>
chanVars == <<msgs, cmds>>
registryVars == <<pending_requests, futures>>
vars == <<is_ready, client, loop, nthreads, tpc, starget, connected, started,
          pc, lk, co, gh, msgs, cmds, now, pending_requests, futures>>

Min(a, b) == IF a < b THEN a ELSE b

\* ---- results
NoData == [f \in {} |-> ""]
NoResult == [kind |-> "none", error |-> "", detail |-> "", request_id |-> 0, text_data |-> 0, images |-> <<>>, parsed_data |-> NoData]
Raised == [kind |-> "raised", error |-> "AttributeError", detail |-> "attr", request_id |-> 0, text_data |-> 0, images |-> <<>>, parsed_data |-> NoData]
Failure(err, detail, rid) == [kind |-> "failure", error |-> err, detail |-> detail, request_id |-> rid, text_data |-> 0, images |-> <<>>, parsed_data |-> NoData]
Success(rid, m, imgs, data) == [kind |-> "success", error |-> "", detail |-> "", request_id |-> rid, text_data |-> m, images |-> imgs, parsed_data |-> data]

NoLk == [dni |-> "", attempt |-> 0, request_id |-> 0, submit_time |-> 0, via |-> 0,
         error_msg |-> "", result |-> NoResult]
NoCo == [pc |-> "none", command_time |-> 0, images |-> <<>>, text_data |-> 0,
         processed_image_ids |-> {}, capture_start_time |-> 0, scan |-> 0, pos |-> 0,
         wake |-> 0, res |-> NoResult]
\* what a lookup has done so far: commands sent, whether it fetched messages and
\* downloaded media, restarts it made, and the last error a channel operation raised
NoGh == [sends |-> 0, fetches |-> 0, downloads |-> 0, restarts |-> 0, op_raised |-> ""]

Init ==
  /\ is_ready = FALSE /\ client = 0 /\ loop = 0
  /\ nthreads = 1
  /\ tpc = [g \in Gens |-> IF g = 1 THEN "loop" ELSE "none"]
  /\ starget = [g \in Gens |-> 0]
  /\ connected = [g \in Gens |-> FALSE]
  /\ started = [g \in Gens |-> FALSE]
  /\ pc = [c \in Callers |-> "idle"]
  /\ lk = [t \in Lookups |-> NoLk]
  /\ co = [t \in Lookups |-> NoCo]
  /\ gh = [t \in Lookups |-> NoGh]
  /\ msgs = <<>> /\ cmds = {}
  /\ now = 0
  /\ pending_requests = {}
  /\ futures = [r \in RegIds |-> "none"]

\* ======================================================================
\* init_telethon_thread / run_telethon / start_telegram
\* ======================================================================

\* the event loop of thread g is inside run_until_complete
LoopRunning(l) == l # 0 /\ tpc[l] \in {"start", "check", "connect"}

run_telethon_new_loop(g) ==
  /\ tpc[g] = "loop"
  /\ loop' = g
  /\ tpc' = [tpc EXCEPT ![g] = "client"]
  /\ UNCHANGED <<is_ready, client, nthreads, starget, connected, started,
                 pc, lookupVars, chanVars, now, registryVars>>

run_telethon_new_client(g) ==
  /\ tpc[g] = "client"
  /\ client' = g
  /\ tpc' = [tpc EXCEPT ![g] = "run"]
  /\ UNCHANGED <<is_ready, loop, nthreads, starget, connected, started,
                 pc, lookupVars, chanVars, now, registryVars>>

\* line 748 runs start_telegram, whose first line awaits start() of the global client
start_telegram_begin(g) ==
  /\ tpc[g] = "run"
  /\ IF client = 0
       THEN /\ tpc' = [tpc EXCEPT ![g] = "dead"]
            /\ UNCHANGED starget
       ELSE /\ tpc' = [tpc EXCEPT ![g] = "start"]
            /\ starget' = [starget EXCEPT ![g] = client]
  /\ UNCHANGED <<is_ready, client, loop, nthreads, connected, started,
                 pc, lookupVars, chanVars, now, registryVars>>

\* is_ready set whatever start() did
ReadyAfterStart_Always(ok) == TRUE

\* line 723 is reached only when the await of line 722 returned
ReadyAfterStart(ok) == ok

\* await client.start() returns (ok) or raises; a raise ends the thread (line 750)
start_telegram_started(g) ==
  /\ tpc[g] = "start"
  /\ \E ok \in BOOLEAN :
       /\ is_ready' = (is_ready \/ ReadyAfterStart(ok))
       /\ connected' = IF ok THEN [connected EXCEPT ![starget[g]] = TRUE] ELSE connected
       /\ started' = IF ok THEN [started EXCEPT ![starget[g]] = TRUE] ELSE started
       /\ tpc' = [tpc EXCEPT ![g] = IF ok THEN "check" ELSE "dead"]
  /\ starget' = [starget EXCEPT ![g] = 0]
  /\ UNCHANGED <<client, loop, nthreads,
                 pc, lookupVars, chanVars, now, registryVars>>

\* one pass of the while True body that finds the global client disconnected
\* (line 729) and starts connect() on it.  The other passes change nothing: the
\* keep-alive of a connected client, and the AttributeError of a None client, which
\* line 744 catches
supervisor_check(g) ==
  /\ tpc[g] = "check"
  /\ client # 0
  /\ ~connected[client]
  /\ tpc' = [tpc EXCEPT ![g] = "connect"]
  /\ starget' = [starget EXCEPT ![g] = client]
  /\ UNCHANGED <<is_ready, client, loop, nthreads, connected, started,
                 pc, lookupVars, chanVars, now, registryVars>>

\* lines 732-735 and the sleep of line 743
supervisor_connect(g) ==
  /\ tpc[g] = "connect"
  /\ \E ok \in BOOLEAN :
       connected' = IF ok THEN [connected EXCEPT ![starget[g]] = TRUE] ELSE connected
  /\ tpc' = [tpc EXCEPT ![g] = "check"]
  /\ starget' = [starget EXCEPT ![g] = 0]
  /\ UNCHANGED <<is_ready, client, loop, nthreads, started,
                 pc, lookupVars, chanVars, now, registryVars>>

\* the network drops the connection of client c
connection_drop(c) ==
  /\ connected[c]
  /\ connected' = [connected EXCEPT ![c] = FALSE]
  /\ UNCHANGED <<is_ready, client, loop, nthreads, tpc, starget, started,
                 pc, lookupVars, chanVars, now, registryVars>>

\* ======================================================================
\* check_connection / restart_telethon
\* ======================================================================

RestartPcs == {"rs_close", "rs_none", "rs_init"}

\* check_connection, lines 110-112: it returns True, changing nothing, when the
\* client is there and connected
check_connection ==
  /\ pc[Ops] = "idle"
  /\ nthreads < MaxGen
  /\ IF client = 0 THEN TRUE ELSE ~connected[client]
  /\ pc' = [pc EXCEPT ![Ops] = "rs_close"]
  /\ UNCHANGED <<sessionVars, lookupVars, chanVars, now, registryVars>>

\* a disconnect that fails ends the restart
restart_telethon_close_AbortOnFailure(th) ==
  /\ pc[th] = "rs_close"
  /\ IF client # 0
       THEN \E closed \in BOOLEAN :
              /\ closed => LoopRunning(loop)
              /\ pc' = [pc EXCEPT ![th] = IF closed THEN "rs_none" ELSE "idle"]
              /\ connected' = IF closed THEN [connected EXCEPT ![client] = FALSE]
                                        ELSE connected
       ELSE /\ pc' = [pc EXCEPT ![th] = "rs_init"]
            /\ UNCHANGED connected
  /\ UNCHANGED <<is_ready, client, loop, nthreads, tpc, starget, started,
                 lookupVars, chanVars, now, registryVars>>

\* lines 682-695: the graceful disconnect, waited for at most 5 seconds; every
\* failure of it is logged and ignored
restart_telethon_close(th) ==
  /\ pc[th] = "rs_close"
  /\ IF client # 0
       THEN /\ pc' = [pc EXCEPT ![th] = "rs_none"]
            /\ \E closed \in BOOLEAN :
                 /\ closed => LoopRunning(loop)
                 /\ connected' = IF closed THEN [connected EXCEPT ![client] = FALSE]
                                           ELSE connected
       ELSE /\ pc' = [pc EXCEPT ![th] = "rs_init"]
            /\ UNCHANGED connected
  /\ UNCHANGED <<is_ready, client, loop, nthreads, tpc, starget, started,
                 lookupVars, chanVars, now, registryVars>>

\* line 696
restart_telethon_discard(th) ==
  /\ pc[th] = "rs_none"
  /\ client' = 0
  /\ pc' = [pc EXCEPT ![th] = "rs_init"]
  /\ UNCHANGED <<is_ready, loop, nthreads, tpc, starget, connected, started,
                 lookupVars, chanVars, now, registryVars>>

\* line 700: init_telethon_thread starts a new run_telethon thread; the caller
\* then goes on (check_connection returns, consult_dnit_sync retries)
init_telethon_thread(th) ==
  /\ pc[th] = "rs_init"
  /\ nthreads < MaxGen
  /\ nthreads' = nthreads + 1
  /\ tpc' = [tpc EXCEPT ![nthreads + 1] = "loop"]
  /\ pc' = [pc EXCEPT ![th] = IF th = Ops THEN "idle" ELSE "submit"]
  /\ gh' = IF th = Ops THEN gh ELSE [gh EXCEPT ![th].restarts = @ + 1]
  /\ UNCHANGED <<is_ready, client, loop, starget, connected, started,
                 lk, co, chanVars, now, registryVars>>

\* ======================================================================
\* consult_dnit_sync
\* ======================================================================

\* an entry of age 60 counted as expired
cleanup_expired_requests_AtWindow(reg, current_time) ==
  {r \in reg : ~(current_time - r.created_at >= Staleness)}

\* cleanup_expired_requests: the entries it keeps
cleanup_expired_requests(reg, current_time) ==
  {r \in reg : ~(current_time - r.created_at > Staleness)}

\* line 153: the future of every entry the sweep deletes gets the exception
\* "Request expirado"
SweptFutures(reg, current_time) ==
  LET kept == cleanup_expired_requests(reg, current_time)
  IN [r \in RegIds |->
        IF \E e \in reg \ kept : e.request_id = r THEN "expired" ELSE futures[r]]

\* uuid4 tokens: the call of thread t for its n-th attempt gets a token no other
\* call gets
create_request_id(t, n) == 2 * (t - 1) + n

ReadyGuard == is_ready /\ client # 0 /\ loop # 0

\* the check of line 292 left out
ConnectedGuard_Skipped(c) == TRUE

ConnectedGuard(c) == connected[c]

Return(t, r) ==
  /\ lk' = [lk EXCEPT ![t].result = r]
  /\ pc' = [pc EXCEPT ![t] = "done"]

\* line 284
consult_dnit_sync_guard(t, d) ==
  /\ pc[t] = "idle"
  /\ IF ReadyGuard
       THEN /\ lk' = [lk EXCEPT ![t].dni = d]
            /\ pc' = [pc EXCEPT ![t] = "chk_conn"]
       ELSE /\ lk' = [lk EXCEPT ![t].dni = d,
                                ![t].result = Failure("no_disponible", "", 0)]
            /\ pc' = [pc EXCEPT ![t] = "done"]
  /\ UNCHANGED <<sessionVars, co, gh, chanVars, now, registryVars>>

\* line 292: the global client is read again; None has no is_connected
consult_dnit_sync_connected(t) ==
  /\ pc[t] = "chk_conn"
  /\ IF client = 0
       THEN Return(t, Raised)
       ELSE IF ConnectedGuard(client)
         THEN /\ pc' = [pc EXCEPT ![t] = "submit"]
              /\ UNCHANGED lk
         ELSE Return(t, Failure("desconectado", "", 0))
  /\ UNCHANGED <<sessionVars, co, gh, chanVars, now, registryVars>>

\* lines 300-307 (first attempt) and 332-333 (the retry): a new request id and the
\* coroutine handed to the loop the global names now
consult_dnit_sync_submit(t) ==
  /\ pc[t] = "submit"
  /\ lk' = [lk EXCEPT ![t].attempt = @ + 1,
                      ![t].request_id = create_request_id(t, lk[t].attempt + 1),
                      ![t].submit_time = now, ![t].via = loop]
  /\ co' = [co EXCEPT ![t] = [NoCo EXCEPT !.pc = "send"]]
  /\ pending_requests' = IF lk[t].attempt = 0
                           THEN cleanup_expired_requests(pending_requests, now)
                           ELSE pending_requests
  /\ futures' = IF lk[t].attempt = 0 THEN SweptFutures(pending_requests, now)
                                     ELSE futures
  /\ pc' = [pc EXCEPT ![t] = "await"]
  /\ UNCHANGED <<sessionVars, gh, chanVars, now>>

\* line 310 / 334: the coroutine has returned
consult_dnit_sync_result(t) ==
  /\ pc[t] = "await"
  /\ co[t].pc = "ret"
  /\ Return(t, co[t].res)
  /\ UNCHANGED <<sessionVars, co, gh, chanVars, now, registryVars>>

\* line 325
IsDisconnectionMsg(m) == m = "conn"

\* lines 320-342: an exception with message m reaches the handler
SyncExcept(t, m) ==
  IF lk[t].attempt = 1
    THEN IF IsDisconnectionMsg(m)
           THEN /\ pc' = [pc EXCEPT ![t] = "rs_close"]
                /\ lk' = [lk EXCEPT ![t].error_msg = m]
           ELSE Return(t, Failure("error", m, 0))
    ELSE Return(t, Failure("error", lk[t].error_msg, 0))

\* future.result(timeout=35) gives up.  The exception is
\* concurrent.futures.TimeoutError, with an empty message: the interpreter decides
\* whether it is asyncio.TimeoutError too (line 313) or not (line 320)
consult_dnit_sync_timeout(t) ==
  /\ pc[t] = "await"
  /\ co[t].pc # "ret"
  /\ now - lk[t].submit_time >= OuterTimeout
  /\ \/ lk[t].attempt = 1 /\ Return(t, Failure("timeout35", "", lk[t].request_id))
     \/ SyncExcept(t, "")
  /\ UNCHANGED <<sessionVars, co, gh, chanVars, now, registryVars>>

\* ======================================================================
\* the registry of pending requests
\* ======================================================================

\* lines 120-129, for a request id not used before and a future nobody has resolved
register_pending_request(request_id) ==
  /\ futures[request_id] = "none"
  /\ pending_requests' = pending_requests \cup {[request_id |-> request_id, created_at |-> now]}
  /\ futures' = [futures EXCEPT ![request_id] = "pending"]
  /\ UNCHANGED <<sessionVars, pc, lookupVars, chanVars, now>>

\* the result set and the entry left in the registry
complete_request_KeepEntry(request_id) ==
  /\ \E e \in pending_requests : e.request_id = request_id
  /\ futures' = [futures EXCEPT ![request_id] = "result"]
  /\ UNCHANGED <<sessionVars, pc, lookupVars, chanVars, now, pending_requests>>

\* lines 131-140, under request_lock; for an id that is not in the registry it
\* returns False, having changed nothing
complete_request(request_id) ==
  /\ IF \E e \in pending_requests : e.request_id = request_id
       THEN /\ pending_requests' = {e \in pending_requests : e.request_id # request_id}
            /\ futures' = [futures EXCEPT ![request_id] = "result"]
       ELSE UNCHANGED registryVars
  /\ UNCHANGED <<sessionVars, pc, lookupVars, chanVars, now>>

\* lines 142-155, one call, under request_lock from its first line to its last
cleanup_expired_requests_sweep ==
  /\ pending_requests' = cleanup_expired_requests(pending_requests, now)
  /\ futures' = SweptFutures(pending_requests, now)
  /\ UNCHANGED <<sessionVars, pc, lookupVars, chanVars, now>>

\* time passes for the registry
registry_clock ==
  /\ now + RegTickSeconds <= MaxRegTime
  /\ now' = now + RegTickSeconds
  /\ UNCHANGED <<sessionVars, pc, lookupVars, chanVars, registryVars>>

\* ======================================================================
\* parse_dnit_response
\* ======================================================================

\* A reply text is a sequence of lines.  A line is a label (or free text, label
\* "none"), written between ** marks or not, the separator, and what follows it on
\* the line: digits, digits and the word AÑOS ("years"), other text, or nothing.
\* Three of the 23 fields stand for the three shapes of pattern the function uses:
\* DNI (\d+), EDAD (\d+ then AÑOS) and NOMBRES ([^\n\r]+, like the 20 others)
Fields == {"DNI", "NOMBRES", "EDAD"}

Lines ==
  {[label |-> "DNI", bold |-> FALSE, value |-> "digits"],
   [label |-> "DNI", bold |-> TRUE, value |-> "digits"],
   [label |-> "NOMBRES", bold |-> FALSE, value |-> "text"],
   [label |-> "NOMBRES", bold |-> FALSE, value |-> "empty"],
   [label |-> "EDAD", bold |-> FALSE, value |-> "years"],
   [label |-> "EDAD", bold |-> FALSE, value |-> "digits"],
   [label |-> "none", bold |-> FALSE, value |-> "text"]}

Texts == UNION {[1..n -> Lines] : n \in 0..MaxLines}

\* the ** marks kept in the text
clean_text_Kept(text) == text

\* line 178: the marks ** ` * are taken out
clean_text(text) == [i \in DOMAIN text |-> [text[i] EXCEPT !.bold = FALSE]]

\* re.search of the pattern of field f at line i: the label, right before the
\* separator, and after it what the group wants.  \s* runs over a line break, so
\* [^\n\r]+ takes the whole next line when nothing follows the separator
Matches(text, f, i) ==
  /\ text[i].label = f /\ ~text[i].bold
  /\ CASE f = "DNI" -> text[i].value \in {"digits", "years"}
       [] f = "EDAD" -> text[i].value = "years"
       [] OTHER -> text[i].value # "empty" \/ i < Len(text)

Captured(text, f, i) ==
  CASE f = "DNI" -> "digits"
    [] f = "EDAD" -> "years"
    [] OTHER -> IF text[i].value = "empty" THEN "next line" ELSE text[i].value

\* lines 173-277
parse_dnit_response(text) ==
  LET clean == clean_text(text)
      found == {f \in Fields : \E i \in DOMAIN clean : Matches(clean, f, i)}
      first(f) == CHOOSE i \in DOMAIN clean :
                    Matches(clean, f, i) /\ \A j \in 1..(i - 1) : ~Matches(clean, f, j)
  IN [f \in found |-> Captured(clean, f, first(f))]

\* ======================================================================
\* is_olimpo_logo / detect_image_type
\* ======================================================================

\* what the model knows of a downloaded photo: whether its base64 text starts with
\* the first 200 characters of OLIMPO_LOGO_BASE64, the length of that text, whether
\* PIL can open it, and its size in pixels
PhotoData(p) ==
  CASE p = "logo" -> [logo_prefix |-> TRUE, b64len |-> 90000, decodable |-> TRUE,
                      width |-> 1024, height |-> 1024]
    [] p = "tall" -> [logo_prefix |-> FALSE, b64len |-> 20000, decodable |-> TRUE,
                      width |-> 160, height |-> 165]
    [] p = "wide" -> [logo_prefix |-> FALSE, b64len |-> 16000, decodable |-> TRUE,
                      width |-> 400, height |-> 200]
    [] p = "banner" -> [logo_prefix |-> FALSE, b64len |-> 120000, decodable |-> TRUE,
                        width |-> 1200, height |-> 700]
    [] p = "broken" -> [logo_prefix |-> FALSE, b64len |-> 5000, decodable |-> FALSE,
                        width |-> 0, height |-> 0]
    [] OTHER -> [logo_prefix |-> FALSE, b64len |-> 48000, decodable |-> TRUE,
                 width |-> 300, height |-> 400]

\* a filter that lets every image through
is_olimpo_logo_Never(p) == FALSE

\* lines 32-45
is_olimpo_logo(p) ==
  PhotoData(p).logo_prefix \/ PhotoData(p).b64len < MinLogoLen

OrdinalType(current_count) ==
  IF current_count = 0 THEN "CARA"
  ELSE IF current_count = 1 THEN "FIRMA" ELSE "HUELLAS"

\* aspect_ratio = width / height, compared without fractions
detect_image_type(p, current_count) ==
  LET w == PhotoData(p).width
      h == PhotoData(p).height
  IN IF ~PhotoData(p).decodable \/ h = 0 THEN OrdinalType(current_count)
     ELSE IF (100 * w < 95 * h /\ h > 150)
             \/ (10 * w >= 9 * h /\ 10 * w <= 11 * h /\ h > 180) THEN "CARA"
     ELSE IF 10 * w > 13 * h /\ w < 500 THEN "FIRMA"
     ELSE IF 10 * w >= 8 * h /\ 10 * w <= 12 * h /\ h <= 200 THEN "HUELLAS"
     ELSE OrdinalType(current_count)

\* ======================================================================
\* consult_dnit_async
\* ======================================================================

\* the coroutine of lookup t runs on the loop it was handed to, while that loop runs;
\* once consult_dnit_sync has returned nobody reads what it does
Runs(t) == pc[t] = "await" /\ LoopRunning(lk[t].via)

\* a channel operation of the global client: it raises when there is no client
\* (AttributeError) or the client is not connected (ConnectionError)
ChanOk == client # 0 /\ connected[client]
ChanErr == IF client = 0 THEN "attr" ELSE "conn"

AsyncFail(t, err, detail) ==
  co' = [co EXCEPT ![t].pc = "ret", ![t].wake = 0,
                   ![t].res = Failure(err, detail, lk[t].request_id)]

\* lines 486-495: the except of the coroutine turns every exception into a result
AsyncExcept(t, detail) ==
  /\ AsyncFail(t, "error", detail)
  /\ gh' = [gh EXCEPT ![t].op_raised = detail]

\* lines 461-472
AsyncSuccess(t, imgs, seen) ==
  co' = [co EXCEPT ![t].pc = "ret", ![t].images = imgs,
                   ![t].processed_image_ids = seen,
                   ![t].scan = 0, ![t].pos = 0, ![t].capture_start_time = 0,
                   ![t].res = Success(lk[t].request_id, co[t].text_data, imgs,
                                      parse_dnit_response(msgs[co[t].text_data].body))]

\* get_messages / iter_messages: message ids, newest first
Recent(limit) == [k \in 1..Min(limit, Len(msgs)) |-> Len(msgs) - k + 1]

\* lines 373-376
is_from_bot(m) == m.from_id = TARGET_BOT_ID \/ m.from_id = "none"

\* lines 369-383
IsAnchor(m, dni_number, command_time) ==
  /\ m.date > command_time
  /\ is_from_bot(m)
  /\ m.text # "none"
  /\ m.text = dni_number

\* the for loop of line 367 returns at the first message that qualifies
FirstAnchor(ids, dni_number, command_time) ==
  LET hits == {k \in DOMAIN ids : IsAnchor(msgs[ids[k]], dni_number, command_time)}
  IN IF hits = {} THEN 0
     ELSE ids[CHOOSE k \in hits : \A j \in hits : k <= j]

\* lines 352-359
consult_dnit_async_send(t) ==
  /\ Runs(t) /\ co[t].pc = "send"
  /\ IF ChanOk
       THEN /\ cmds' = cmds \cup {[by |-> t, dni |-> lk[t].dni, n |-> lk[t].attempt]}
            /\ co' = [co EXCEPT ![t].pc = "poll", ![t].command_time = now]
            /\ gh' = [gh EXCEPT ![t].sends = @ + 1]
       ELSE /\ AsyncExcept(t, ChanErr)
            /\ UNCHANGED cmds
  /\ UNCHANGED <<sessionVars, pc, lk, msgs, now, registryVars>>

\* the loop bounded by the capture budget instead of the 30 seconds
InnerBudgetOpen_Short(t) == now - co[t].command_time < max_capture_time

\* line 361
InnerBudgetOpen(t) == now - co[t].command_time < Timeout

\* the command sent inside the while loop
AfterPoll_Resend(t) == "send"

\* after the sleep of line 475 the loop goes back to line 361
AfterPoll(t) == "sleep"

\* lines 361-387 and 475-484: one pass of the while loop up to its next await
consult_dnit_async_poll(t) ==
  /\ Runs(t) /\ co[t].pc = "poll"
  /\ IF ~InnerBudgetOpen(t)
       THEN AsyncFail(t, "timeout30", "") /\ UNCHANGED gh
       ELSE IF ~ChanOk
         THEN AsyncExcept(t, ChanErr)
         ELSE LET a == FirstAnchor(Recent(PollLimit), lk[t].dni, co[t].command_time)
              IN /\ gh' = [gh EXCEPT ![t].fetches = 1]
                 /\ IF a = 0
                      THEN co' = [co EXCEPT ![t].pc = AfterPoll(t),
                                            ![t].wake = now + PollSleep]
                      ELSE co' = [co EXCEPT ![t].text_data = a, ![t].images = <<>>,
                                            ![t].wake = 0,
                                            ![t].pc = IF msgs[a].media # "none"
                                                        THEN "dl_anchor" ELSE "capture"]
  /\ UNCHANGED <<sessionVars, pc, lk, chanVars, now, registryVars>>

\* line 475: asyncio.sleep(1) is over
consult_dnit_async_wake(t) ==
  /\ Runs(t) /\ co[t].pc = "sleep"
  /\ now >= co[t].wake
  /\ co' = [co EXCEPT ![t].pc = "poll", ![t].wake = 0]
  /\ UNCHANGED <<sessionVars, pc, lk, gh, chanVars, now, registryVars>>

\* lines 397-407 and 434-446: the images list after one downloaded photo
WithPhoto(images, p, mid) ==
  IF is_olimpo_logo(p) THEN images
  ELSE Append(images, [type |-> detect_image_type(p, Len(images)), base64 |-> p, src |-> mid])

\* lines 391-407: the photo of the anchor message; nothing here catches a failed
\* download (download_media raising, or returning None)
consult_dnit_async_download_anchor(t) ==
  /\ Runs(t) /\ co[t].pc = "dl_anchor"
  /\ IF ~ChanOk
       THEN AsyncExcept(t, ChanErr)
       ELSE \E got \in BOOLEAN :
              IF got
                THEN /\ co' = [co EXCEPT ![t].pc = "capture",
                                 ![t].images = WithPhoto(co[t].images,
                                                 msgs[co[t].text_data].media, co[t].text_data)]
                     /\ gh' = [gh EXCEPT ![t].downloads = 1]
                ELSE AsyncExcept(t, "download")
  /\ UNCHANGED <<sessionVars, pc, lk, chanVars, now, registryVars>>

\* lines 413-419: the secondary capture starts; iter_messages fetches the chat.
\* The try of line 417 catches what the capture raises (line 456)
consult_dnit_async_capture_begin(t) ==
  /\ Runs(t) /\ co[t].pc = "capture"
  /\ IF ChanOk
       THEN /\ co' = [co EXCEPT ![t].pc = "cap_iter", ![t].capture_start_time = now,
                                ![t].processed_image_ids = {},
                                ![t].scan = Len(msgs), ![t].pos = 1]
            /\ gh' = [gh EXCEPT ![t].fetches = 1]
       ELSE /\ AsyncSuccess(t, co[t].images, {})
            /\ gh' = [gh EXCEPT ![t].op_raised = ChanErr]
  /\ UNCHANGED <<sessionVars, pc, lk, chanVars, now, registryVars>>

\* > in place of >=
StopCapture_OffByOne(images) == Len(images) > MaxImages

\* line 449
StopCapture(images) == Len(images) >= MaxImages

\* a message timestamped at the command's own time taken too
Capturable_AtOrAfter(t, mid) ==
  /\ msgs[mid].date >= co[t].command_time
  /\ mid \notin co[t].processed_image_ids
  /\ msgs[mid].media # "none"

\* lines 425-427
Capturable(t, mid) ==
  /\ msgs[mid].date > co[t].command_time
  /\ mid \notin co[t].processed_image_ids
  /\ msgs[mid].media # "none"

\* lines 419-454: one message of the async for
consult_dnit_async_capture_msg(t) ==
  /\ Runs(t) /\ co[t].pc = "cap_iter"
  /\ LET seen == co[t].processed_image_ids
         imgs == co[t].images
         mid == co[t].scan - co[t].pos + 1
     IN IF co[t].pos > Min(CaptureLimit, co[t].scan)
             \/ now - co[t].capture_start_time > max_capture_time
          THEN AsyncSuccess(t, imgs, seen) /\ UNCHANGED gh
          ELSE IF ~Capturable(t, mid)
            THEN /\ IF StopCapture(imgs)
                      THEN AsyncSuccess(t, imgs, seen)
                      ELSE co' = [co EXCEPT ![t].pos = @ + 1]
                 /\ UNCHANGED gh
            ELSE IF ~ChanOk
              THEN /\ AsyncSuccess(t, imgs, seen)
                   /\ gh' = [gh EXCEPT ![t].op_raised = ChanErr]
              ELSE \E got \in BOOLEAN :
                     IF got
                       THEN LET more == WithPhoto(imgs, msgs[mid].media, mid)
                            IN /\ gh' = [gh EXCEPT ![t].downloads = 1]
                               /\ IF StopCapture(more)
                                    THEN AsyncSuccess(t, more, seen \cup {mid})
                                    ELSE co' = [co EXCEPT ![t].pos = @ + 1,
                                                  ![t].images = more,
                                                  ![t].processed_image_ids = seen \cup {mid}]
                       ELSE /\ AsyncSuccess(t, imgs, seen)
                            /\ gh' = [gh EXCEPT ![t].op_raised = "download"]
  /\ UNCHANGED <<sessionVars, pc, lk, chanVars, now, registryVars>>

\* ======================================================================
\* the responder and the clock
\* ======================================================================

\* what the responder posts in answer to a command: the text about the id, with or
\* without a photo, or a photo alone
ReplyShapes(c) ==
  {[text |-> c.dni, media |-> "none"], [text |-> c.dni, media |-> "face"],
   [text |-> "none", media |-> "face"], [text |-> "none", media |-> "logo"]}

\* a coroutine is still reading the chat; what is posted when none is, nobody sees
Listening == \E t \in Lookups : pc[t] = "await" /\ co[t].pc \notin {"none", "ret"}

responder_reply(c, max) ==
  /\ Len(msgs) < max
  /\ Listening
  /\ \E shape \in ReplyShapes(c) :
       msgs' = Append(msgs, [date |-> now, from_id |-> TARGET_BOT_ID, text |-> shape.text,
                             media |-> shape.media, re |-> c.by, body |-> <<>>])
  /\ UNCHANGED <<sessionVars, pc, lookupVars, cmds, now, registryVars>>

\* the responder answers a command with a text that holds the id, and any lines
responder_reply_record(c, max) ==
  /\ Len(msgs) < max
  /\ Listening
  /\ \E body \in Texts :
       msgs' = Append(msgs, [date |-> now, from_id |-> TARGET_BOT_ID, text |-> c.dni,
                             media |-> "none", re |-> c.by, body |-> body])
  /\ UNCHANGED <<sessionVars, pc, lookupVars, cmds, now, registryVars>>

\* the responder posts a photo of any kind
responder_photo(c, max) ==
  /\ Len(msgs) < max
  /\ Listening
  /\ \E p \in Photos :
       msgs' = Append(msgs, [date |-> now, from_id |-> TARGET_BOT_ID, text |-> "none",
                             media |-> p, re |-> c.by, body |-> <<>>])
  /\ UNCHANGED <<sessionVars, pc, lookupVars, cmds, now, registryVars>>

\* a message of the chat that holds the id and is not the responder's: its sender
\* is somebody else, or the message carries no sender (from_id None); it may carry
\* a photo
Strangers == {"other", "none"}

chat_message(c, max) ==
  /\ Len(msgs) < max
  /\ Listening
  /\ \E who \in Strangers, media \in {"none", "face"} :
       msgs' = Append(msgs, [date |-> now, from_id |-> who, text |-> c.dni,
                             media |-> media, re |-> 0, body |-> <<>>])
  /\ UNCHANGED <<sessionVars, pc, lookupVars, cmds, now, registryVars>>

\* a lookup is waiting for the clock: in asyncio.sleep (lines 454, 475), or in
\* future.result for a coroutine whose loop does not run
TimedWait(t) ==
  /\ pc[t] = "await"
  /\ co[t].pc \in {"sleep", "cap_iter"} \/ ~LoopRunning(lk[t].via)

\* time passes while some lookup waits for it
Tick ==
  /\ now + TickSeconds <= MaxTime
  /\ \E t \in Lookups : TimedWait(t)
  /\ now' = now + TickSeconds
  /\ UNCHANGED <<sessionVars, pc, lookupVars, chanVars, registryVars>>

\* ---- the steps of the program, by thread
RestartStep(th) ==
  \/ restart_telethon_close(th)
  \/ restart_telethon_discard(th)
  \/ init_telethon_thread(th)

BootStep ==
  \/ \E g \in Gens : run_telethon_new_loop(g)
  \/ \E g \in Gens : run_telethon_new_client(g)
  \/ \E g \in Gens : start_telegram_begin(g)
  \/ \E g \in Gens : start_telegram_started(g)

\* the session threads, the network dropping connections, and a caller of
\* check_connection
SessionStep ==
  \/ BootStep
  \/ \E g \in Gens : supervisor_check(g)
  \/ \E g \in Gens : supervisor_connect(g)
  \/ \E c \in Gens : connection_drop(c)
  \/ check_connection
  \/ RestartStep(Ops)

RunningStep(t) ==
  \/ consult_dnit_sync_connected(t)
  \/ consult_dnit_sync_submit(t)
  \/ consult_dnit_sync_result(t)
  \/ consult_dnit_sync_timeout(t)
  \/ consult_dnit_async_send(t)
  \/ consult_dnit_async_poll(t)
  \/ consult_dnit_async_wake(t)
  \/ consult_dnit_async_download_anchor(t)
  \/ consult_dnit_async_capture_begin(t)
  \/ consult_dnit_async_capture_msg(t)

\* a lookup for any id
LookupStep(t) ==
  \/ \E d \in DNIs : consult_dnit_sync_guard(t, d)
  \/ RunningStep(t)

\* The program with one lookup in flight: the session threads, the network, a
\* caller of check_connection, the lookup, the responder and the clock
Next ==
  \/ SessionStep
  \/ RestartStep(1)
  \/ LookupStep(1)
  \/ \E c \in cmds : responder_reply(c, MaxMsgs)
  \/ Tick

Spec == Init /\ [][Next]_vars

\* The session alone: its threads, the network and check_connection
SpecSession == Init /\ [][SessionStep]_vars

\* The session with its threads scheduled: a thread that can take a step takes it
\* at some time.  Nothing says that connections drop or that somebody calls
\* check_connection
SpecSessionLive ==
  /\ SpecSession
  /\ WF_vars(BootStep)
  /\ WF_vars(\E g \in Gens : supervisor_check(g))
  /\ WF_vars(\E g \in Gens : supervisor_connect(g))
  /\ WF_vars(RestartStep(Ops))

\* One lookup against a session nobody restarts, and a responder that posts up to
\* MaxQueryMsgs messages
NextQuery ==
  \/ BootStep
  \/ LookupStep(1)
  \/ \E c \in cmds : responder_reply(c, MaxQueryMsgs)
  \/ Tick

SpecQuery == Init /\ [][NextQuery]_vars

\* Two lookups, for two different ids, in flight at once on a session that stays up
DniOf(t) == IF t = 1 THEN "11111111" ELSE "22222222"

NextPair ==
  \/ BootStep
  \/ \E t \in Lookups : consult_dnit_sync_guard(t, DniOf(t))
  \/ \E t \in Lookups : RunningStep(t)
  \/ \E c \in cmds : responder_reply(c, MaxPairMsgs)
  \/ Tick

SpecPair == Init /\ [][NextPair]_vars

\* One lookup, a responder whose answers are texts of any lines, and other
\* messages in the chat
NextAnchor ==
  \/ BootStep
  \/ LookupStep(1)
  \/ \E c \in cmds : responder_reply_record(c, MaxAnchorMsgs)
  \/ \E c \in cmds : chat_message(c, MaxAnchorMsgs)
  \/ Tick

SpecAnchor == Init /\ [][NextAnchor]_vars

\* One lookup and a responder that posts photos of every kind
NextImages ==
  \/ BootStep
  \/ LookupStep(1)
  \/ \E c \in cmds : responder_reply(c, MaxImageMsgs)
  \/ \E c \in cmds : responder_photo(c, MaxImageMsgs)
  \/ Tick

SpecImages == Init /\ [][NextImages]_vars

\* The registry and its callers: registrations, completions, sweeps, and the clock
NextRegistry ==
  \/ \E r \in RegIds : register_pending_request(r)
  \/ \E r \in RegIds : complete_request(r)
  \/ cleanup_expired_requests_sweep
  \/ registry_clock

SpecRegistry == Init /\ [][NextRegistry]_vars

\* ======================================================================
\* Properties
\* ======================================================================

Done(t) == pc[t] = "done"
Structured(r) == r.kind = "success" \/ (r.kind = "failure" /\ r.error # "")

\* C1: every lookup that ends hands its caller a structured result, a success or a
\* failure with its error message (the part of the claim a finite run can refute).
C1_EveryLookupEndsStructured ==
  \A t \in Lookups : Done(t) => Structured(lk[t].result)

\* C2: a lookup that finds the session not ready at line 284, or the client not
\* connected at line 292, returns a failure in that same step and has used the
\* channel for nothing: no command, no fetch, no download, no restart, no coroutine,
\* and the registry as it was.
C2_RejectedLookupTouchesNothing ==
  [][\A t \in Lookups :
       LET notReady == pc[t] = "idle" /\ ~(is_ready /\ client # 0 /\ loop # 0)
           notConnected == pc[t] = "chk_conn" /\ client # 0 /\ ~connected[client]
       IN (pc'[t] # pc[t] /\ (notReady \/ notConnected)) =>
            /\ pc'[t] = "done"
            /\ lk'[t].result.kind = "failure"
            /\ lk'[t].result.error = (IF notReady THEN "no_disponible" ELSE "desconectado")
            /\ gh[t] = NoGh /\ gh'[t] = NoGh
            /\ co'[t] = NoCo
            /\ {c \in cmds' : c.by = t} = {}
            /\ UNCHANGED <<msgs, cmds, pending_requests, sessionVars>>]_vars

C2_Witness ==
  /\ Done(1) /\ lk[1].result.error = "desconectado"
  /\ is_ready /\ client # 0

\* no message of the chat meets the anchor conditions of lookup t
NoAnchorInChat(t) ==
  \A i \in 1..Len(msgs) :
    ~(/\ msgs[i].date > co[t].command_time
      /\ msgs[i].from_id \in {TARGET_BOT_ID, "none"}
      /\ msgs[i].text = lk[t].dni)

IsTimeout(r) == r.kind = "failure" /\ r.error \in {"timeout30", "timeout35"}

\* C3: a query that has sent its command, finds no anchor message and has no channel
\* operation raise, returns the 30-second timeout failure, not before 30 seconds
\* have passed since the command, having sent one command; and a lookup that ends
\* in a timeout has restarted nothing and retried nothing.
C3_NoAnchorGivesTimeout ==
  \A t \in Lookups :
    /\ (co[t].pc = "ret" /\ gh[t].sends >= 1 /\ gh[t].op_raised = "" /\ NoAnchorInChat(t))
         => /\ co[t].res = Failure("timeout30", "", lk[t].request_id)
            /\ now - co[t].command_time >= Timeout
            /\ gh[t].sends = 1
    /\ (IsTimeout(co[t].res) \/ IsTimeout(lk[t].result))
         => gh[t].restarts = 0 /\ lk[t].attempt = 1 /\ gh[t].sends <= 1

C3_Witness ==
  /\ Done(1) /\ lk[1].result.error = "timeout30"
  /\ gh[1].sends = 1 /\ Len(msgs) = 1 /\ NoAnchorInChat(1)

\* C4: a lookup in which a channel operation raised a connectivity error has made
\* one restart and one retry by the time it returns.
C4_ConnectivityErrorRestartsAndRetries ==
  \A t \in Lookups :
    (Done(t) /\ gh[t].op_raised = "conn") => gh[t].restarts = 1 /\ lk[t].attempt = 2

\* C5: a lookup makes at most one restart and sends at most two commands, in at
\* most two attempts.
C5_AtMostOneRestartTwoCommands ==
  \A t \in Lookups :
    gh[t].restarts <= 1 /\ gh[t].sends <= 2 /\ lk[t].attempt <= 2

C5_Witness ==
  Done(1) /\ lk[1].result.kind = "success" /\ gh[1].sends = 1 /\ nthreads = MaxGen

\* C6: the images list of a query never holds more than 4 images, while it is
\* built and in the result.
C6_AtMostFourImages ==
  \A t \in Lookups :
    /\ Len(co[t].images) <= MaxImages
    /\ Len(co[t].res.images) <= MaxImages
    /\ Len(lk[t].result.images) <= MaxImages

C6_Witness ==
  /\ Done(1) /\ lk[1].result.kind = "success" /\ Len(lk[1].result.images) = MaxImages
  /\ Len(msgs) = MaxQueryMsgs
  /\ \A i \in 1..Len(msgs) : msgs[i].media = "face"

\* C7: the text and the images of a successful lookup come from messages the
\* responder posted in answer to that lookup's own command.
C7_ResultFromOwnReplies ==
  \A t \in Lookups :
    lk[t].result.kind = "success" =>
      /\ msgs[lk[t].result.text_data].re = t
      /\ \A i \in 1..Len(lk[t].result.images) : msgs[lk[t].result.images[i].src].re = t

\* C8: a query that has matched an anchor message returns success.
C8_AnchorMatchedGivesSuccess ==
  \A t \in Lookups :
    (co[t].pc = "ret" /\ co[t].text_data # 0) => co[t].res.kind = "success"

\* C9: is_ready is false at the start, and true only when start() of some client
\* has returned successfully.
C9_ReadyOnlyAfterStart ==
  is_ready => \E c \in Gens : started[c]

C9_Witness ==
  is_ready /\ \E g \in Gens : g > 1 /\ tpc[g] = "dead"

\* C10: while a reconnection is in progress (connect() of the supervisor loop after
\* a drop, start() of the thread of a restart) is_ready is false.
C10_NotReadyWhileReconnecting ==
  \A g \in Gens :
    (tpc[g] = "connect" \/ (g > 1 /\ tpc[g] = "start")) => ~is_ready

\* a lookup that has passed the guard of line 284 and has not returned
InFlight(t) == pc[t] \notin {"idle", "done"}

\* C11: while a lookup has passed the readiness guard and has not returned, the
\* registry holds an entry for it: the number of entries equals the number of
\* lookups in flight.
C11_RegistryTracksInFlight ==
  Cardinality(pending_requests) = Cardinality({t \in Lookups : InFlight(t)})

\* C12: a sweep removes every entry older than 60 seconds and fails its future with
\* the expired outcome; every entry of age 60 seconds or less stays, its future
\* unresolved.
C12_SweepRemovesExactlyTheStale ==
  [][cleanup_expired_requests_sweep =>
       \A e \in pending_requests :
         IF now - e.created_at > Staleness
           THEN e \notin pending_requests' /\ futures'[e.request_id] = "expired"
           ELSE e \in pending_requests' /\ futures'[e.request_id] = "pending"]_vars

C12_Witness ==
  /\ \E r \in RegIds : futures[r] = "expired"
  /\ \E e \in pending_requests :
       now - e.created_at = Staleness /\ futures[e.request_id] = "pending"
  /\ \A e \in pending_requests : now - e.created_at <= Staleness

\* the fields a text gives, read off its lines once the ** marks are gone: a DNI
\* line followed by digits, an EDAD line followed by digits and AÑOS, a NOMBRES line
\* followed by anything, on its own line or the next
FieldsIn(text) ==
  {f \in Fields : \E i \in DOMAIN text :
     /\ text[i].label = f
     /\ \/ f = "DNI" /\ text[i].value \in {"digits", "years"}
        \/ f = "EDAD" /\ text[i].value = "years"
        \/ f = "NOMBRES" /\ (text[i].value # "empty" \/ i # Len(text))}

C18_AnchorFromResponder ==
  \A t \in Lookups :
    co[t].text_data # 0 => msgs[co[t].text_data].from_id = TARGET_BOT_ID

\* the image lists of lookup t: the one being built and the ones in its results
ImageLists(t) == {co[t].images, co[t].res.images, lk[t].result.images}

\* C14: each message gives at most one entry of a query's images list, the anchor
\* message included.
C14_NoAttachmentTwice ==
  \A t \in Lookups : \A imgs \in ImageLists(t) :
    \A i, j \in 1..Len(imgs) : i # j => imgs[i].src # imgs[j].src

\* C15: when several messages of the chat meet the anchor conditions, the anchor is
\* the one with the earliest timestamp.
C15_EarliestAnchorChosen ==
  \A t \in Lookups :
    co[t].text_data # 0 =>
      \A i \in 1..Len(msgs) :
        IsAnchor(msgs[i], lk[t].dni, co[t].command_time)
          => msgs[i].date >= msgs[co[t].text_data].date

\* C16: the anchor message and the source message of every collected image are
\* timestamped strictly after the query's command_time.
C16_OnlyMessagesAfterCommand ==
  \A t \in Lookups :
    /\ co[t].text_data # 0 => msgs[co[t].text_data].date > co[t].command_time
    /\ \A imgs \in {co[t].images, co[t].res.images} : \A i \in 1..Len(imgs) :
         msgs[imgs[i].src].date > co[t].command_time

C16_Witness ==
  /\ Done(1) /\ lk[1].result.kind = "success" /\ Len(lk[1].result.images) >= 1
  /\ \E i \in 1..Len(msgs) :
       /\ msgs[i].date = co[1].command_time
       /\ msgs[i].media = "face"
       /\ \A k \in 1..Len(lk[1].result.images) : lk[1].result.images[k].src # i

\* C17: the images collected in the capture phase are in arrival order (stated for
\* queries whose anchor carries no photo, whose images all come from the capture).
C17_ImagesInArrivalOrder ==
  \A t \in Lookups :
    (lk[t].result.kind = "success" /\ msgs[lk[t].result.text_data].media = "none") =>
      LET imgs == lk[t].result.images
      IN \A i, j \in 1..Len(imgs) : i < j => imgs[i].src < imgs[j].src

C20_OneReconnectionAtATime ==
  Cardinality({g \in Gens : tpc[g] \in {"start", "connect"}}) <= 1

\* C21: at most one supervisor loop (the while True of start_telegram) is running.
C21_OneSupervisorLoop ==
  Cardinality({g \in Gens : tpc[g] \in {"check", "connect"}}) <= 1

\* the channel is down: no client, or a client that is not connected
Down == IF client = 0 THEN TRUE ELSE ~connected[client]
Attempting == \E g \in Gens : tpc[g] \in {"start", "connect"}

\* C22: whenever the channel is disconnected, a reconnection attempt (start() or
\* connect()) eventually follows.
C22_DisconnectedLeadsToReconnect ==
  Down ~> Attempting

\* C23: a lookup that has passed the readiness guard and is about to use the client
\* (line 292, or a channel operation of its coroutine) finds a client that is there
\* and whose start has completed.
C23_NoHalfReconnectedSession ==
  \A t \in Lookups :
    (pc[t] = "chk_conn" \/ (pc[t] = "await" /\ co[t].pc \notin {"none", "ret"}))
      => (client # 0 /\ started[client])

\* C25: once restart_telethon has begun, whatever the disconnect of the old client
\* does, it goes on to discard the client handle (when there is one) and to start a
\* new run_telethon thread, and it returns.
C25_RestartAlwaysProceeds ==
  /\ [][(pc[Ops] \in RestartPcs /\ pc'[Ops] # pc[Ops]) =>
          CASE pc[Ops] = "rs_close" ->
                 pc'[Ops] = (IF client # 0 THEN "rs_none" ELSE "rs_init")
            [] pc[Ops] = "rs_none" -> pc'[Ops] = "rs_init" /\ client' = 0
            [] pc[Ops] = "rs_init" ->
                 /\ pc'[Ops] = "idle"
                 /\ nthreads' = nthreads + 1
                 /\ tpc'[nthreads'] = "loop"]_vars
  /\ (pc[Ops] = "rs_close") ~> (pc[Ops] = "idle")

\* the restart is over although the old client was never disconnected
C25_Witness ==
  /\ pc[Ops] = "idle" /\ nthreads = MaxGen
  /\ connected[1]

\* C24: the future of a request is resolved at most once and its entry removed at
\* most once: a resolved future keeps its outcome, an entry is in the registry
\* exactly while its future is unresolved, and for an id that is not in the registry
\* no call but its registration changes anything.
C24_ResolvedAndRemovedOnce ==
  [][\A r \in RegIds :
       LET inReg == \E e \in pending_requests : e.request_id = r
           inRegNext == \E e \in pending_requests' : e.request_id = r
       IN /\ futures[r] \in {"result", "expired"} => futures'[r] = futures[r]
          /\ inReg <=> futures[r] = "pending"
          /\ inRegNext <=> futures'[r] = "pending"
          /\ (~inReg /\ futures[r] # "none") => (~inRegNext /\ futures'[r] = futures[r])
          /\ Cardinality({e \in pending_requests' : e.request_id = r}) <= 1]_vars

C24_Witness ==
  /\ \E r \in RegIds : futures[r] = "result"
  /\ \E r \in RegIds : futures[r] = "expired"
  /\ \E r \in RegIds : futures[r] = "pending"
  /\ now > 2 * Staleness - 1

\* C26: the value stored for a field comes from the line of its label: it is never
\* text of the following line.
C26_ValueFromOwnLine ==
  \A t \in Lookups :
    lk[t].result.kind = "success" =>
      LET data == lk[t].result.parsed_data
          body == msgs[lk[t].result.text_data].body
      IN \A f \in DOMAIN data :
           \E i \in DOMAIN body :
             /\ body[i].label = f
             /\ body[i].value # "empty"
             /\ data[f] \in {body[i].value, "digits"}

\* a decodable image higher than wide and higher than 150 pixels
Portrait(p) ==
  /\ PhotoData(p).decodable
  /\ PhotoData(p).height > PhotoData(p).width
  /\ PhotoData(p).height > 150

\* C27: every portrait image of a result has the type CARA, whatever its position.
C27_PortraitIsFace ==
  \A t \in Lookups : \A imgs \in ImageLists(t) :
    \A i \in 1..Len(imgs) : Portrait(imgs[i].base64) => imgs[i].type = "CARA"

====
